---- MODULE Spec2Model ----
(***************************************************************************)
(* The task-scheduling engine of src/agents/task_manager.py: TaskManager   *)
(* (the Coordinator), its AgentWorker threads and the PriorityQueue of     *)
(* Task objects between them.                                              *)
(*                                                                         *)
(* Threads: one caller thread (add_task, cancel_task, start) and one       *)
(* thread per AgentWorker.  The code takes no lock of its own, so every    *)
(* statement on which another thread's control flow depends is a step of   *)
(* its own: reads and writes of task.status and task.retry_count, of       *)
(* completed_tasks, of the tasks dict and of the queue.  Writes that no    *)
(* thread branches on (current_task, agent_id, the timestamps, result,     *)
(* error, the counters, failed_tasks) ride with the neighbouring step, in  *)
(* source order.  The label of a step is the source line it stands at      *)
(* (exec_136 is line 136 of task_manager.py).  queue.PriorityQueue locks   *)
(* internally: put and get_nowait are atomic.  A statement is the unit of  *)
(* interleaving: task.retry_count += 1 is one step.  task.function is      *)
(* abstracted to its outcome, returning or raising; timestamps, result and *)
(* error are kept as "set or not".                                         *)
(***************************************************************************)
EXTENDS Integers, Sequences, FiniteSets, TLC

\* ------------------------------------------------------------------ bounds
\* Workers of the general specification: TaskManager(max_agents) in 1..MaxAgents.
MaxAgents == 2
\* Submit calls the caller makes in the general specification.
MaxTasks == 2
\* Submit calls the caller makes in the single-worker specification.
QueueTasks == 3
\* max_retries is drawn from 0..MaxRetries.
MaxRetries == 2
\* A task lists at most MaxDeps dependencies.
MaxDeps == 1
\* Threads that call add_task concurrently in the concurrent-callers
\* specification.
MaxCallers == 2
\* Threads one worker can have alive at once in the restart specification:
\* the one of its last start and those of earlier starts that have not ended.
MaxThreads == 2
\* The clock of the memory specification runs through the milliseconds
\* 1..MaxClock.
MaxClock == 2
\* Calls the client of the MemoryRouter makes.
MaxCalls == 4

\* ------------------------------------------------------- program constants
\* TaskPriority
CRITICAL == 1
MEDIUM == 3
LOW == 4
\* The priorities the caller submits with.
Priorities == {CRITICAL, MEDIUM, LOW}

\* TaskStatus
PENDING == "pending"
RUNNING == "running"
COMPLETED == "completed"
FAILED == "failed"
CANCELLED == "cancelled"
RETRYING == "retrying"

\* A task id no add_task ever returned (task ids are 1, 2, ... in the model):
\* what a caller of add_task(dependencies=...) or cancel_task can pass besides
\* the ids it was given.
UnknownId == 0
\* None, for the fields that hold a task id or a worker id.
None == 0

VARIABLES
    max_agents,       \* TaskManager.max_agents
    is_running,       \* TaskManager.is_running
    tasks,            \* TaskManager.tasks: task id -> Task (ids are 1..Len)
    task_queue,       \* TaskManager.task_queue: the heap array of PriorityQueue
    completed_tasks,  \* TaskManager.completed_tasks (a list)
    failed_tasks,     \* TaskManager.failed_tasks (a list)
    stats,            \* TaskManager.stats
    agents,           \* TaskManager.agents: worker id -> AgentWorker fields
    wpc,              \* worker thread: the line it stands at
    wtask,            \* worker thread: the local `task` of _run/_execute_task
    witer,            \* worker thread: the dict iterator of _check_dependent_tasks
    caller,           \* caller thread: the line it stands at, its local task id
    budget,           \* add_task calls the caller still makes
    sub,              \* concurrent callers of add_task: line, task_id, task
    qsize_seen,       \* thread: the value of task_queue.qsize() it has read
    attempts,         \* history: task id -> times task.function was called
    arrival           \* history: the queue's entries in the order they were put

\* src/memory_store.py and src/memory_router.py
VARIABLES
    clock,            \* int(time.time() * 1000), the millisecond of the clock
    base_store,       \* MemoryRouter.base_store: a MemoryStore
    context_stores,   \* MemoryRouter.context_stores, in the order of insertion
    active_context,   \* MemoryRouter.active_context
    files,            \* the file system: storage path -> the file's content
    ret,              \* the router's client: its last call and what it returned
    quota             \* calls the router's client still makes

\* The variables of the task engine, and those of the memory system.
Scheduler == <<max_agents, is_running, tasks, task_queue, completed_tasks,
               failed_tasks, stats, agents, wpc, wtask, witer, caller, budget,
               sub, qsize_seen, attempts, arrival>>
Memory == <<clock, base_store, context_stores, active_context, files, ret, quota>>

vars == <<Scheduler, Memory>>

Agents == 1..max_agents
\* The threads are numbered through the workers, round after round: thread th
\* runs AgentWorker._run of worker AgentOf(th).  With one thread per worker a
\* thread has the number of its worker.
AgentOf(th) == ((th - 1) % max_agents) + 1
TaskIds == 1..Len(tasks)

Range(s) == {s[i] : i \in 1..Len(s)}

\* Task.__lt__ with the comparison turned round.
Lt_reversed(a, b) == tasks[a].priority > tasks[b].priority

\* ------------------------------------------------------------ Task.__lt__
Lt(a, b) == tasks[a].priority < tasks[b].priority

\* --------------------------------------------- PriorityQueue (heapq array)
\* Positions are 0-based as in heapq; At/Put translate to 1-based sequences.
At(h, i) == h[i + 1]
Put(h, i, x) == [h EXCEPT ![i + 1] = x]

\* heapq._siftdown(heap, startpos, pos) with newitem already taken out.
RECURSIVE SiftDown(_, _, _, _)
SiftDown(h, startpos, pos, newitem) ==
    IF pos > startpos
    THEN LET parentpos == (pos - 1) \div 2
             parent == At(h, parentpos)
         IN  IF Lt(newitem, parent)
             THEN SiftDown(Put(h, pos, parent), startpos, parentpos, newitem)
             ELSE Put(h, pos, newitem)
    ELSE Put(h, pos, newitem)

\* heapq._siftup(heap, pos): bubble the smaller child up to a leaf, then
\* sift newitem down from there.
RECURSIVE SiftUp(_, _, _, _)
SiftUp(h, startpos, pos, newitem) ==
    LET endpos == Len(h)
        left == 2 * pos + 1
        rightpos == left + 1
        childpos == IF rightpos < endpos /\ ~Lt(At(h, left), At(h, rightpos))
                    THEN rightpos ELSE left
    IN  IF left < endpos
        THEN SiftUp(Put(h, pos, At(h, childpos)), startpos, childpos, newitem)
        ELSE SiftDown(h, startpos, pos, newitem)

\* A queue that appends: put without the sift of heappush.
HeapPush_fifo(h, x) == Append(h, x)

\* PriorityQueue._put: heappush
HeapPush(h, x) == SiftDown(Append(h, x), 0, Len(h), x)

\* PriorityQueue._get: heappop, the item returned
HeapTop(h) == h[1]

\* PriorityQueue._get: heappop, the heap left behind
HeapPop(h) ==
    LET lastelt == h[Len(h)]
        rest == SubSeq(h, 1, Len(h) - 1)
    IN  IF rest = <<>> THEN rest ELSE SiftUp(rest, 0, 0, lastelt)

\* history: the arrival list without the first occurrence of x
RECURSIVE RemoveFirst(_, _)
RemoveFirst(s, x) ==
    IF s = <<>> THEN <<>>
    ELSE IF Head(s) = x THEN Tail(s)
    ELSE <<Head(s)>> \o RemoveFirst(Tail(s), x)

\* _can_execute_task testing the dependency against the task table instead of
\* the completed list.
CanExecuteTask_registered(t) ==
    \A dep_id \in tasks[t].dependencies : dep_id \in TaskIds

\* ---------------------------------------------- TaskManager._can_execute_task
CanExecuteTask(t) ==
    \/ tasks[t].dependencies = {}
    \/ \A dep_id \in tasks[t].dependencies : dep_id \in Range(completed_tasks)

\* ------------------------------------------------------------ MemoryStore
\* A content string is the sequence of its characters; an importance is
\* counted in tenths (ImportanceOne is the 1.0 of the code).
MinContentLen == 8
ImportanceZero == 0
ImportanceOne == 10

Whitespace == {" "}
Letters == {"a", "b"}

\* n times the character ch
Rep(ch, n) == [i \in 1..n |-> ch]

\* The contents a client saves: enough letters between two spaces, letters and
\* a digit, one letter too few between two spaces, digits only.
Contents ==
    { <<" ">> \o Rep("a", MinContentLen) \o <<" ">>,
      Rep("b", MinContentLen - 1) \o <<"1">>,
      <<" ">> \o Rep("a", MinContentLen - 1) \o <<" ">>,
      Rep("1", MinContentLen) }

\* The importances a client saves with: below 0.0, inside [0, 1], above 1.0.
Importances == {ImportanceZero - 5, 5, ImportanceOne + 5}

\* The tag lists a client saves with.
TagLists == {<<>>, <<"t">>}

\* The context ids a client passes; NoneContext is the None of a context_id
\* left out and of active_context.
ContextIds == {"base", "work"}
NoneContext == "<None>"

\* str.strip()
RECURSIVE LStrip(_)
LStrip(s) == IF s # <<>> /\ Head(s) \in Whitespace THEN LStrip(Tail(s)) ELSE s

RECURSIVE RStrip(_)
RStrip(s) ==
    IF s # <<>> /\ s[Len(s)] \in Whitespace
    THEN RStrip(SubSeq(s, 1, Len(s) - 1))
    ELSE s

Strip(s) == RStrip(LStrip(s))

\* save_memory, lines 46-50: the content that raises no ValueError
ContentValid(content) ==
    /\ ~(content = <<>> \/ Len(Strip(content)) < MinContentLen)
    /\ \E i \in 1..Len(content) : content[i] \in Letters

\* Python's max and min of two arguments: the first one unless the second is
\* strictly greater (smaller).
PyMax(a, b) == IF b > a THEN b ELSE a
PyMin(a, b) == IF b < a THEN b ELSE a

\* line 55: min(max(importance, 0.0), 1.0)
Clamp(importance) == PyMin(PyMax(importance, ImportanceZero), ImportanceOne)

\* A dict: the function from its keys to their values.
EmptyDict == [k \in {} |-> None]
DictSet(d, k, v) == [x \in DOMAIN d \cup {k} |-> IF x = k THEN v ELSE d[x]]
DictDel(d, k) == [x \in DOMAIN d \ {k} |-> d[x]]

\* lines 52-59: the id is the millisecond of the clock (the prefix "mem_" is
\* left out); the entry's timestamp is not modelled.
NewEntry(content, importance, tags) ==
    [content |-> Strip(content), importance |-> Clamp(importance),
     tags |-> tags, id |-> clock]

\* MemoryEntry.to_dict and from_dict: the dict of the entry's fields, and back
EntryFields == {"content", "importance", "tags", "id"}
ToDict(entry) == [k \in EntryFields |-> entry[k]]
FromDict(data) ==
    [content |-> data["content"], importance |-> data["importance"],
     tags |-> data["tags"], id |-> data["id"]]

\* A path without a file.
NoFile == [exists |-> FALSE, data |-> EmptyDict]

\* _save_to_disk: the content of the file written (the path is writable)
SaveToDisk(memories) ==
    [exists |-> TRUE, data |-> [id \in DOMAIN memories |-> ToDict(memories[id])]]

\* load_memories: the dict read from a file, empty when there is none
LoadMemories(file) ==
    IF file.exists
    THEN [id \in DOMAIN file.data |-> FromDict(file.data[id])]
    ELSE EmptyDict

\* MemoryStore.__init__
NewStore(storage_path) ==
    [storage_path |-> storage_path, memories |-> LoadMemories(files[storage_path])]

\* save_memory, lines 52-61: the store with the entry under its id
SaveMemory(store, content, importance, tags) ==
    [store EXCEPT !.memories = DictSet(@, clock, NewEntry(content, importance, tags))]

\* retrieve_memory: self.memories.get(memory_id)
NoEntry == [k \in {} |-> None]
RetrieveMemory(store, memory_id) ==
    IF memory_id \in DOMAIN store.memories
    THEN store.memories[memory_id]
    ELSE NoEntry

\* delete_memory, line 107
DeleteMemory(store, memory_id) ==
    [store EXCEPT !.memories = DictDel(@, memory_id)]

\* clear_all_memories, line 118
ClearAllMemories(store) == [store EXCEPT !.memories = EmptyDict]

\* The storage paths: the default of MemoryStore() for the base store, line 24
\* of memory_router.py for a context.
BasePath == "memory_store.json"
ContextPath(context_id) == "memory_store_" \o context_id \o ".json"
Paths == {BasePath} \cup {ContextPath(c) : c \in ContextIds}

\* MemoryRouter(): a base store on a path without a file, no context, the
\* clock at its first millisecond.
MemoryInit ==
    /\ clock = 1
    /\ base_store = [storage_path |-> BasePath, memories |-> EmptyDict]
    /\ context_stores = <<>>
    /\ active_context = NoneContext
    /\ files = [p \in Paths |-> NoFile]
    /\ ret = [op |-> "init", context_id |-> NoneContext, content |-> <<>>,
              importance |-> ImportanceZero, tags |-> <<>>,
              memory_id |-> None, value |-> TRUE]
    /\ quota = MaxCalls

\* ----------------------------------------------------------------- Init
\* No iteration under way: position 0 over a dict of 0 entries.
NoIter == [pos |-> 0, used |-> 0]

\* A thread that is not inside add_task.
NoCall == [pc |-> "idle", task_id |-> None, task |-> None]

NewAgent == [is_running |-> FALSE, current_task |-> None,
             completed_tasks |-> 0, failed_tasks |-> 0]

InitWith(n, b, k) ==
    /\ max_agents = n
    /\ is_running = FALSE
    /\ tasks = <<>>
    /\ task_queue = <<>>
    /\ completed_tasks = <<>>
    /\ failed_tasks = <<>>
    /\ stats = [total_tasks |-> 0, completed_tasks |-> 0, failed_tasks |-> 0,
                queue_size |-> 0]
    /\ agents = [a \in 1..n |-> NewAgent]
    /\ wpc = [th \in 1..(n * k) |-> "off"]
    /\ wtask = [th \in 1..(n * k) |-> None]
    /\ witer = [th \in 1..(n * k) |-> NoIter]
    /\ caller = [pc |-> "idle", task |-> None]
    /\ budget = b
    /\ sub = [c \in 1..MaxCallers |-> NoCall]
    /\ qsize_seen = [th \in 0..(n * k) |-> 0]
    /\ attempts = <<>>
    /\ arrival = <<>>
    /\ MemoryInit

Init == \E n \in 1..MaxAgents : InitWith(n, MaxTasks, 1)

InitQueue == InitWith(1, QueueTasks, 1)

\* -------------------------------------------------------- frame helpers
Manager == <<max_agents, is_running>>
Lists == <<completed_tasks, failed_tasks>>
Queue == <<task_queue, arrival, stats>>
Threads == <<wpc, wtask, witer>>
Client == <<caller, budget, sub>>

\* -------------------------------------------------------- queue operations
\* self.task_queue.put(task); self.stats['queue_size'] = self.task_queue.qsize()
\* (the put and the refresh of the cached size are taken as one step)
QueuePut(t) ==
    /\ task_queue' = HeapPush(task_queue, t)
    /\ arrival' = Append(arrival, t)
    /\ stats' = [stats EXCEPT !.queue_size = Len(task_queue) + 1]

\* The refresh of the cached size statement by statement, for threads that
\* refresh it concurrently.  The caller is thread CallerThread.
CallerThread == 0

\* self.task_queue.put(task) alone
PutOnly(t) ==
    /\ task_queue' = HeapPush(task_queue, t)
    /\ arrival' = Append(arrival, t)

\* self.task_queue.qsize() is evaluated
ReadSize(th) == qsize_seen' = [qsize_seen EXCEPT ![th] = Len(task_queue)]

\* self.stats['queue_size'] is assigned the value read
WriteSize(th) == stats' = [stats EXCEPT !.queue_size = qsize_seen[th]]

SetStatus(t, s) == tasks' = [tasks EXCEPT ![t].status = s]

Goto(a, l) == wpc' = [wpc EXCEPT ![a] = l]

\* ------------------------------------------------------ TaskManager.start
\* start(): a second call while running does nothing.  Every AgentWorker.start
\* sets its is_running and spawns its thread at the head of _run.  The caller
\* starts again after a stop only once the threads of the stopped workers have
\* ended: a worker has one thread at a time.
Start ==
    /\ caller.pc = "idle"
    /\ ~is_running
    /\ \A a \in Agents : ~agents[a].is_running => wpc[a] = "off"
    /\ is_running' = TRUE
    /\ agents' = [a \in Agents |-> [agents[a] EXCEPT !.is_running = TRUE]]
    /\ wpc' = [a \in Agents |-> IF agents[a].is_running THEN wpc[a] ELSE "run_112"]
    /\ UNCHANGED <<Memory, qsize_seen, max_agents, tasks, attempts, wtask, witer, Lists, Queue, Client>>

\* The thread numbers of worker a that no live thread has.
FreeSlots(a) == {th \in DOMAIN wpc : AgentOf(th) = a /\ wpc[th] = "off"}

\* start() at any time after a stop: AgentWorker.start (lines 97-100) tests
\* the worker's flag only, so each stopped worker gets a new thread at the
\* head of _run whether or not the thread of its previous start has ended.
\* A worker has at most MaxThreads threads alive.
Start_spawn ==
    /\ caller.pc = "idle"
    /\ ~is_running
    /\ \A a \in Agents : ~agents[a].is_running => FreeSlots(a) # {}
    /\ is_running' = TRUE
    /\ agents' = [a \in Agents |-> [agents[a] EXCEPT !.is_running = TRUE]]
    /\ wpc' = [th \in DOMAIN wpc |->
                 IF /\ ~agents[AgentOf(th)].is_running
                    /\ th \in FreeSlots(AgentOf(th))
                    /\ \A u \in FreeSlots(AgentOf(th)) : th <= u
                 THEN "run_112" ELSE wpc[th]]
    /\ UNCHANGED <<Memory, qsize_seen, max_agents, tasks, attempts, wtask, witer, Lists, Queue, Client>>

\* start() and stop() as calls the caller makes at any time, whatever the
\* flag is.  The caller enters start().
Start_call ==
    /\ caller.pc = "idle"
    /\ caller' = [pc |-> "start_195", task |-> None]
    /\ UNCHANGED <<Memory, qsize_seen, Manager, tasks, attempts, Lists, Queue, agents, Threads, budget, sub>>

\* start() spawning threads without the test of line 195.
Start_run_again ==
    /\ caller.pc = "start_195"
    /\ \A a \in Agents : FreeSlots(a) # {}
    /\ is_running' = TRUE
    /\ agents' = [a \in Agents |-> [agents[a] EXCEPT !.is_running = TRUE]]
    /\ wpc' = [th \in DOMAIN wpc |->
                 IF /\ th \in FreeSlots(AgentOf(th))
                    /\ \A u \in FreeSlots(AgentOf(th)) : th <= u
                 THEN "run_112" ELSE wpc[th]]
    /\ caller' = [pc |-> "idle", task |-> None]
    /\ UNCHANGED <<Memory, qsize_seen, max_agents, tasks, attempts, wtask, witer, Lists, Queue, budget, sub>>

\* lines 195-202: if not self.is_running, set it and start every worker
\* (AgentWorker.start, lines 97-100: a worker whose flag is cleared gets a
\* new thread); otherwise nothing.  start() returns.
Start_run ==
    /\ caller.pc = "start_195"
    /\ IF ~is_running
       THEN /\ \A a \in Agents : ~agents[a].is_running => FreeSlots(a) # {}
            /\ is_running' = TRUE
            /\ agents' = [a \in Agents |-> [agents[a] EXCEPT !.is_running = TRUE]]
            /\ wpc' = [th \in DOMAIN wpc |->
                         IF /\ ~agents[AgentOf(th)].is_running
                            /\ th \in FreeSlots(AgentOf(th))
                            /\ \A u \in FreeSlots(AgentOf(th)) : th <= u
                         THEN "run_112" ELSE wpc[th]]
       ELSE UNCHANGED <<is_running, agents, wpc>>
    /\ caller' = [pc |-> "idle", task |-> None]
    /\ UNCHANGED <<Memory, qsize_seen, max_agents, tasks, attempts, wtask, witer, Lists, Queue, budget, sub>>

\* --------------------------------------------------- TaskManager.add_task
\* The dependency lists a caller can pass: ids it was given, or an id of no task.
DepChoices(U) == {d \in SUBSET (TaskIds \cup U) : Cardinality(d) <= MaxDeps}

NewTask(p, d, r) ==
    [priority |-> p, dependencies |-> d, max_retries |-> r,
     status |-> PENDING, retry_count |-> 0, agent_id |-> None,
     started_at |-> FALSE, completed_at |-> FALSE,
     result |-> FALSE, error |-> FALSE]

\* lines 232-248: build the Task, register it, count it
AddTask_register(P, R, U) ==
    /\ caller.pc = "idle"
    /\ budget > 0
    /\ \E p \in P, d \in DepChoices(U), r \in R :
          tasks' = Append(tasks, NewTask(p, d, r))
    /\ attempts' = Append(attempts, 0)
    /\ stats' = [stats EXCEPT !.total_tasks = @ + 1]
    /\ budget' = budget - 1
    /\ caller' = [pc |-> "add_251", task |-> Len(tasks) + 1]
    /\ UNCHANGED <<Memory, qsize_seen, Manager, Lists, task_queue, arrival, agents, Threads, sub>>

\* add_task going on to the put of line 252 whatever line 251 finds.
AddTask_check_always ==
    /\ caller.pc = "add_251"
    /\ caller' = [caller EXCEPT !.pc = "add_252"]
    /\ UNCHANGED <<Memory, qsize_seen, Manager, tasks, attempts, Lists, Queue, agents, Threads, budget, sub>>

\* line 251: if self._can_execute_task(task); line 258 when it cannot
AddTask_check ==
    /\ caller.pc = "add_251"
    /\ caller' = IF CanExecuteTask(caller.task)
                 THEN [caller EXCEPT !.pc = "add_252"]
                 ELSE [pc |-> "idle", task |-> None]
    /\ UNCHANGED <<Memory, qsize_seen, Manager, tasks, attempts, Lists, Queue, agents, Threads, budget, sub>>

\* lines 252-258: put the task, refresh queue_size, return the id
AddTask_put ==
    /\ caller.pc = "add_252"
    /\ QueuePut(caller.task)
    /\ caller' = [pc |-> "idle", task |-> None]
    /\ UNCHANGED <<Memory, qsize_seen, Manager, tasks, attempts, Lists, agents, Threads, budget, sub>>

\* line 252: self.task_queue.put(task)
AddTask_put_only ==
    /\ caller.pc = "add_252"
    /\ PutOnly(caller.task)
    /\ caller' = [caller EXCEPT !.pc = "add_253"]
    /\ UNCHANGED <<Memory, qsize_seen, Manager, tasks, attempts, Lists, stats, agents, Threads, budget, sub>>

\* line 253, right-hand side: self.task_queue.qsize()
AddTask_qsize ==
    /\ caller.pc = "add_253"
    /\ ReadSize(CallerThread)
    /\ caller' = [caller EXCEPT !.pc = "add_253_store"]
    /\ UNCHANGED <<Memory, Manager, tasks, attempts, Lists, Queue, agents, Threads, budget, sub>>

\* line 253, the assignment; line 258 returns the id
AddTask_cache ==
    /\ caller.pc = "add_253_store"
    /\ WriteSize(CallerThread)
    /\ caller' = [pc |-> "idle", task |-> None]
    /\ UNCHANGED <<Memory, qsize_seen, Manager, tasks, attempts, Lists, task_queue, arrival, agents,
                   Threads, budget, sub>>

\* cancel_task without the test of the status.
CancelTask_check_any(id) ==
    /\ caller.pc = "idle"
    /\ id \in TaskIds
    /\ caller' = [pc |-> "cancel_363", task |-> id]
    /\ UNCHANGED <<Memory, qsize_seen, Manager, tasks, attempts, Lists, Queue, agents, Threads, budget, sub>>

\* -------------------------------- TaskManager.add_task, concurrent callers
\* add_task statement by statement, for threads that call it concurrently.
\* The callers run within one millisecond: the clock term of the id of line
\* 232 is the same for all of them, and the id is the table's size (the ids
\* of a table of n tasks are 1..n, the next one n + 1).
\* lines 232-245: the id is computed and the Task built
Submit_id(c) ==
    /\ sub[c].pc = "idle"
    /\ budget > 0
    /\ budget' = budget - 1
    /\ \E p \in {MEDIUM}, d \in DepChoices({}), r \in {0, MaxRetries} :
          sub' = [sub EXCEPT ![c] = [pc |-> "add_247",
                                     task_id |-> Len(tasks) + 1,
                                     task |-> NewTask(p, d, r)]]
    /\ UNCHANGED <<Memory, qsize_seen, Manager, tasks, attempts, Lists, Queue, agents, Threads, caller>>

\* lines 247-248: self.tasks[task_id] = task, which adds an entry or replaces
\* the one the table has under that id; total_tasks += 1
Submit_register(c) ==
    /\ sub[c].pc = "add_247"
    /\ IF sub[c].task_id \in TaskIds
       THEN /\ tasks' = [tasks EXCEPT ![sub[c].task_id] = sub[c].task]
            /\ UNCHANGED attempts
       ELSE /\ tasks' = Append(tasks, sub[c].task)
            /\ attempts' = Append(attempts, 0)
    /\ stats' = [stats EXCEPT !.total_tasks = @ + 1]
    /\ sub' = [sub EXCEPT ![c].pc = "add_251", ![c].task = None]
    /\ UNCHANGED <<Memory, qsize_seen, Manager, Lists, task_queue, arrival, agents, Threads, caller, budget>>

\* line 251: if self._can_execute_task(task); line 258 when it cannot
Submit_check(c) ==
    /\ sub[c].pc = "add_251"
    /\ sub' = [sub EXCEPT ![c] = IF CanExecuteTask(sub[c].task_id)
                                 THEN [@ EXCEPT !.pc = "add_252"]
                                 ELSE NoCall]
    /\ UNCHANGED <<Memory, qsize_seen, Manager, tasks, attempts, Lists, Queue, agents, Threads, caller, budget>>

\* lines 252-258: put the task, refresh queue_size, return the id
Submit_put(c) ==
    /\ sub[c].pc = "add_252"
    /\ QueuePut(sub[c].task_id)
    /\ sub' = [sub EXCEPT ![c] = NoCall]
    /\ UNCHANGED <<Memory, qsize_seen, Manager, tasks, attempts, Lists, agents, Threads, caller, budget>>

\* ------------------------------------------------ TaskManager.cancel_task
\* lines 360-362: look the id up and test its status; line 366 returns False
CancelTask_check(id) ==
    /\ caller.pc = "idle"
    /\ caller' = IF id \in TaskIds /\ tasks[id].status = PENDING
                 THEN [pc |-> "cancel_363", task |-> id]
                 ELSE [pc |-> "idle", task |-> None]
    /\ UNCHANGED <<Memory, qsize_seen, Manager, tasks, attempts, Lists, Queue, agents, Threads, budget, sub>>

\* lines 363-365: task.status = CANCELLED; return True
CancelTask_set ==
    /\ caller.pc = "cancel_363"
    /\ SetStatus(caller.task, CANCELLED)
    /\ caller' = [pc |-> "idle", task |-> None]
    /\ UNCHANGED <<Memory, qsize_seen, Manager, attempts, Lists, Queue, agents, Threads, budget, sub>>

CancelTask == \E id \in TaskIds \cup {UnknownId} : CancelTask_check(id)

\* ------------------------------------------------------- TaskManager.stop
\* lines 206-207: if self.is_running: self.is_running = False
Stop_flag ==
    /\ caller.pc = "idle"
    /\ is_running
    /\ is_running' = FALSE
    /\ caller' = [pc |-> "stop_210", task |-> None]
    /\ UNCHANGED <<Memory, qsize_seen, max_agents, tasks, attempts, Lists, Queue, agents, Threads, budget, sub>>

\* The caller enters stop().
Stop_call ==
    /\ caller.pc = "idle"
    /\ caller' = [pc |-> "stop_206", task |-> None]
    /\ UNCHANGED <<Memory, qsize_seen, Manager, tasks, attempts, Lists, Queue, agents, Threads, budget, sub>>

\* lines 206-207: if self.is_running, clear it and go on to the workers;
\* otherwise stop() returns.
Stop_test ==
    /\ caller.pc = "stop_206"
    /\ IF is_running
       THEN /\ is_running' = FALSE
            /\ caller' = [pc |-> "stop_210", task |-> None]
       ELSE /\ caller' = [pc |-> "idle", task |-> None]
            /\ UNCHANGED is_running
    /\ UNCHANGED <<Memory, qsize_seen, max_agents, tasks, attempts, Lists, Queue, agents, Threads, budget, sub>>

\* The workers stop has not reached yet; it goes through self.agents in the
\* order of their creation.
NotStopped == {a \in Agents : agents[a].is_running}

\* stop killing the thread of the worker it stops.
Stop_agent_kill ==
    /\ caller.pc = "stop_210"
    /\ IF NotStopped = {}
       THEN /\ caller' = [pc |-> "idle", task |-> None]
            /\ UNCHANGED <<agents, wpc>>
       ELSE LET a == CHOOSE a \in NotStopped : \A b \in NotStopped : a <= b
            IN  /\ agents' = [agents EXCEPT ![a].is_running = FALSE]
                /\ wpc' = [wpc EXCEPT ![a] = "off"]
                /\ UNCHANGED caller
    /\ UNCHANGED <<Memory, qsize_seen, Manager, tasks, attempts, Lists, Queue, wtask, witer, budget, sub>>

\* lines 210-211 with AgentWorker.stop (105-107): the next worker's is_running
\* is cleared and its thread joined; the join returns when the thread has
\* ended or after 5 seconds, so the caller goes on whatever the thread does.
\* After the last worker, stop returns.
Stop_agent ==
    /\ caller.pc = "stop_210"
    /\ IF NotStopped = {}
       THEN /\ caller' = [pc |-> "idle", task |-> None]
            /\ UNCHANGED agents
       ELSE /\ agents' = [agents EXCEPT
                   ![CHOOSE a \in NotStopped : \A b \in NotStopped : a <= b]
                       .is_running = FALSE]
            /\ UNCHANGED caller
    /\ UNCHANGED <<Memory, qsize_seen, Manager, tasks, attempts, Lists, Queue, Threads, budget, sub>>

\* self.thread.join(timeout=5) of worker a is over: each thread of the worker
\* has ended or is inside a task's action, which can outlast the 5 seconds
\* (every other step of a thread takes less, sleeps included).
JoinOver(a) ==
    \A th \in DOMAIN wpc : AgentOf(th) = a => wpc[th] \in {"off", "exec_136"}

\* lines 210-211 with AgentWorker.stop (105-107), the join taken as it runs:
\* stop goes on to the next worker, or returns, when the join of the worker
\* it stopped last is over.
Stop_agent_join ==
    /\ caller.pc = "stop_210"
    /\ LET stopped == Cardinality(Agents \ NotStopped)
       IN  stopped = 0 \/ JoinOver(stopped)
    /\ IF NotStopped = {}
       THEN /\ caller' = [pc |-> "idle", task |-> None]
            /\ UNCHANGED agents
       ELSE /\ agents' = [agents EXCEPT
                   ![CHOOSE a \in NotStopped : \A b \in NotStopped : a <= b]
                       .is_running = FALSE]
            /\ UNCHANGED caller
    /\ UNCHANGED <<Memory, qsize_seen, Manager, tasks, attempts, Lists, Queue, Threads, budget, sub>>

\* ------------------------------------------------------- AgentWorker._run
\* get_next_task under a lock that a worker holds for the length of a task's
\* action: no task is handed out while some worker is inside an action.
Run_get_locked(a) ==
    /\ wpc[a] = "run_112"
    /\ agents[AgentOf(a)].is_running
    /\ task_queue # <<>>
    /\ \A b \in DOMAIN wpc : wpc[b] # "exec_136"
    /\ wtask' = [wtask EXCEPT ![a] = HeapTop(task_queue)]
    /\ task_queue' = HeapPop(task_queue)
    /\ arrival' = RemoveFirst(arrival, HeapTop(task_queue))
    /\ stats' = [stats EXCEPT !.queue_size = Len(task_queue) - 1]
    /\ Goto(a, "exec_126")
    /\ UNCHANGED <<Memory, qsize_seen, Manager, tasks, attempts, Lists, agents, witer, Client>>

\* lines 112-117 with get_next_task (260-269): while is_running, take the next
\* task off the queue and refresh queue_size; with the queue empty the worker
\* sleeps and polls again (no step).  Without a call of stop is_running stays
\* set, and the test of line 112 rides with the get.
Run_get(a) ==
    /\ wpc[a] = "run_112"
    /\ agents[AgentOf(a)].is_running
    /\ task_queue # <<>>
    /\ wtask' = [wtask EXCEPT ![a] = HeapTop(task_queue)]
    /\ task_queue' = HeapPop(task_queue)
    /\ arrival' = RemoveFirst(arrival, HeapTop(task_queue))
    /\ stats' = [stats EXCEPT !.queue_size = Len(task_queue) - 1]
    /\ Goto(a, "exec_126")
    /\ UNCHANGED <<Memory, qsize_seen, Manager, tasks, attempts, Lists, agents, witer, Client>>

\* get_next_task statement by statement.  Lines 112-115 and 262-264: while
\* is_running, with the queue not empty, get_nowait()
Get_pop(a) ==
    /\ wpc[a] = "run_112"
    /\ agents[AgentOf(a)].is_running
    /\ task_queue # <<>>
    /\ wtask' = [wtask EXCEPT ![a] = HeapTop(task_queue)]
    /\ task_queue' = HeapPop(task_queue)
    /\ arrival' = RemoveFirst(arrival, HeapTop(task_queue))
    /\ Goto(a, "get_265")
    /\ UNCHANGED <<Memory, qsize_seen, Manager, tasks, attempts, Lists, stats, agents, witer, Client>>

\* line 265, right-hand side: self.task_queue.qsize()
Get_qsize(a) ==
    /\ wpc[a] = "get_265"
    /\ ReadSize(a)
    /\ Goto(a, "get_265_store")
    /\ UNCHANGED <<Memory, Manager, tasks, attempts, Lists, Queue, agents, wtask, witer, Client>>

\* line 265, the assignment; line 266 returns the task to _run
Get_cache(a) ==
    /\ wpc[a] = "get_265_store"
    /\ WriteSize(a)
    /\ Goto(a, "exec_126")
    /\ UNCHANGED <<Memory, qsize_seen, Manager, tasks, attempts, Lists, task_queue, arrival, agents,
                   wtask, witer, Client>>

\* The loop of _run going on whatever the flag is.
Loop_test_deaf(a) ==
    /\ wpc[a] = "run_112"
    /\ Goto(a, "run_115")
    /\ UNCHANGED <<Memory, qsize_seen, Manager, tasks, attempts, Lists, Queue, agents, wtask, witer, Client>>

\* The loop of _run statement by statement, for a caller that stops the
\* workers.  Line 112: while self.is_running; a worker that finds the flag
\* cleared leaves _run and its thread ends.
Loop_test(a) ==
    /\ wpc[a] = "run_112"
    /\ Goto(a, IF agents[AgentOf(a)].is_running THEN "run_115" ELSE "off")
    /\ UNCHANGED <<Memory, qsize_seen, Manager, tasks, attempts, Lists, Queue, agents, wtask, witer, Client>>

\* lines 115-119 with get_next_task: a task off the queue, or a sleep and
\* back to line 112
Loop_get(a) ==
    /\ wpc[a] = "run_115"
    /\ IF task_queue # <<>>
       THEN /\ wtask' = [wtask EXCEPT ![a] = HeapTop(task_queue)]
            /\ task_queue' = HeapPop(task_queue)
            /\ arrival' = RemoveFirst(arrival, HeapTop(task_queue))
            /\ stats' = [stats EXCEPT !.queue_size = Len(task_queue) - 1]
            /\ Goto(a, "exec_126")
       ELSE /\ Goto(a, "run_112")
            /\ UNCHANGED <<wtask, Queue>>
    /\ UNCHANGED <<Memory, qsize_seen, Manager, tasks, attempts, Lists, agents, witer, Client>>

\* ----------------------------------------------- AgentWorker._execute_task
\* What a step of worker a on its task leaves alone.
WorkerFrame == UNCHANGED <<Memory, qsize_seen, Manager, Lists, Queue, wtask, witer, Client>>

\* lines 126-129: current_task, agent_id, started_at, status = RUNNING
Exec_start(a) ==
    /\ wpc[a] = "exec_126"
    /\ agents' = [agents EXCEPT ![AgentOf(a)].current_task = wtask[a]]
    /\ tasks' = [tasks EXCEPT ![wtask[a]].agent_id = AgentOf(a),
                              ![wtask[a]].started_at = TRUE,
                              ![wtask[a]].status = RUNNING]
    /\ Goto(a, "exec_136")
    /\ UNCHANGED attempts
    /\ WorkerFrame

\* The head of _execute_task statement by statement, for what another thread
\* finds on the task between the writes.  Lines 126-128: current_task,
\* agent_id, started_at
Exec_fields(a) ==
    /\ wpc[a] = "exec_126"
    /\ agents' = [agents EXCEPT ![AgentOf(a)].current_task = wtask[a]]
    /\ tasks' = [tasks EXCEPT ![wtask[a]].agent_id = AgentOf(a),
                              ![wtask[a]].started_at = TRUE]
    /\ Goto(a, "exec_129")
    /\ UNCHANGED attempts
    /\ WorkerFrame

\* line 129: task.status = TaskStatus.RUNNING
Exec_running(a) ==
    /\ wpc[a] = "exec_129"
    /\ SetStatus(wtask[a], RUNNING)
    /\ Goto(a, "exec_136")
    /\ UNCHANGED <<agents, attempts>>
    /\ WorkerFrame

\* lines 136-146: task.function returns; result, completed_at,
\* status = COMPLETED, self.completed_tasks += 1
Exec_returns(a) ==
    /\ wpc[a] = "exec_136"
    /\ attempts' = [attempts EXCEPT ![wtask[a]] = @ + 1]
    /\ tasks' = [tasks EXCEPT ![wtask[a]].result = TRUE,
                              ![wtask[a]].completed_at = TRUE,
                              ![wtask[a]].status = COMPLETED]
    /\ agents' = [agents EXCEPT ![AgentOf(a)].completed_tasks = @ + 1]
    /\ Goto(a, "exec_166")
    /\ WorkerFrame

\* _execute_task without its except clause: the exception of task.function
\* leaves the worker's thread, which ends.
Exec_raises_uncaught(a) ==
    /\ wpc[a] = "exec_136"
    /\ attempts' = [attempts EXCEPT ![wtask[a]] = @ + 1]
    /\ Goto(a, "off")
    /\ UNCHANGED <<tasks, agents>>
    /\ WorkerFrame

\* lines 136, 150-154: task.function raises; error, status = FAILED,
\* self.failed_tasks += 1
Exec_raises(a) ==
    /\ wpc[a] = "exec_136"
    /\ attempts' = [attempts EXCEPT ![wtask[a]] = @ + 1]
    /\ tasks' = [tasks EXCEPT ![wtask[a]].error = TRUE,
                              ![wtask[a]].status = FAILED]
    /\ agents' = [agents EXCEPT ![AgentOf(a)].failed_tasks = @ + 1]
    /\ Goto(a, "exec_159")
    /\ WorkerFrame

\* line 159: if task.retry_count < task.max_retries
RetriesLeft(t) == tasks[t].retry_count < tasks[t].max_retries

Exec_retry_test(a) ==
    /\ wpc[a] = "exec_159"
    /\ Goto(a, IF RetriesLeft(wtask[a]) THEN "exec_160" ELSE "exec_166")
    /\ UNCHANGED <<tasks, agents, attempts>>
    /\ WorkerFrame

\* A retry that also demotes the task to the lowest of the priorities.
Exec_retry_count_demoted(a) ==
    /\ wpc[a] = "exec_160"
    /\ tasks' = [tasks EXCEPT ![wtask[a]].retry_count = @ + 1,
                              ![wtask[a]].priority = LOW]
    /\ Goto(a, "exec_161")
    /\ UNCHANGED <<agents, attempts>>
    /\ WorkerFrame

\* line 160: task.retry_count += 1
Exec_retry_count(a) ==
    /\ wpc[a] = "exec_160"
    /\ tasks' = [tasks EXCEPT ![wtask[a]].retry_count = @ + 1]
    /\ Goto(a, "exec_161")
    /\ UNCHANGED <<agents, attempts>>
    /\ WorkerFrame

\* line 161: task.status = TaskStatus.RETRYING
Exec_retrying(a) ==
    /\ wpc[a] = "exec_161"
    /\ SetStatus(wtask[a], RETRYING)
    /\ Goto(a, "retry_273")
    /\ UNCHANGED <<agents, attempts>>
    /\ WorkerFrame

\* ------------------------------------------------- TaskManager.retry_task
\* line 273: if task.retry_count < task.max_retries (after the increment)
Retry_test(a) ==
    /\ wpc[a] = "retry_273"
    /\ Goto(a, IF RetriesLeft(wtask[a]) THEN "retry_274" ELSE "exec_166")
    /\ UNCHANGED <<tasks, agents, attempts>>
    /\ WorkerFrame

\* line 274: task.status = TaskStatus.PENDING
Retry_pending(a) ==
    /\ wpc[a] = "retry_274"
    /\ SetStatus(wtask[a], PENDING)
    /\ Goto(a, "retry_275")
    /\ UNCHANGED <<agents, attempts>>
    /\ WorkerFrame

\* lines 275-276: self.task_queue.put(task), refresh queue_size
Retry_put(a) ==
    /\ wpc[a] = "retry_275"
    /\ QueuePut(wtask[a])
    /\ Goto(a, "exec_166")
    /\ UNCHANGED <<Memory, qsize_seen, Manager, tasks, attempts, Lists, agents, wtask, witer, Client>>

\* line 275: self.task_queue.put(task)
Retry_put_only(a) ==
    /\ wpc[a] = "retry_275"
    /\ PutOnly(wtask[a])
    /\ Goto(a, "retry_276")
    /\ UNCHANGED <<Memory, qsize_seen, Manager, tasks, attempts, Lists, stats, agents, wtask, witer, Client>>

\* line 276, right-hand side: self.task_queue.qsize()
Retry_qsize(a) ==
    /\ wpc[a] = "retry_276"
    /\ ReadSize(a)
    /\ Goto(a, "retry_276_store")
    /\ UNCHANGED <<Memory, Manager, tasks, attempts, Lists, Queue, agents, wtask, witer, Client>>

\* line 276, the assignment
Retry_cache(a) ==
    /\ wpc[a] = "retry_276_store"
    /\ WriteSize(a)
    /\ Goto(a, "exec_166")
    /\ UNCHANGED <<Memory, qsize_seen, Manager, tasks, attempts, Lists, task_queue, arrival, agents,
                   wtask, witer, Client>>

\* ------------------------------------------ TaskManager.update_task_status
\* _execute_task returns to the loop of _run: its local task is gone.
Return(a) ==
    /\ wpc' = [wpc EXCEPT ![a] = "run_112"]
    /\ wtask' = [wtask EXCEPT ![a] = None]
    /\ witer' = [witer EXCEPT ![a] = NoIter]

\* line 166 (finally): current_task = None; lines 280 and 284: the branch the
\* task's status selects; lines 285-286: the terminal failure is recorded
Update_test(a) ==
    /\ wpc[a] = "exec_166"
    /\ agents' = [agents EXCEPT ![AgentOf(a)].current_task = None]
    /\ LET t == tasks[wtask[a]] IN
         IF t.status = COMPLETED
         THEN /\ Goto(a, "update_281")
              /\ UNCHANGED <<wtask, witer, failed_tasks, stats>>
         ELSE IF t.status = FAILED /\ t.retry_count >= t.max_retries
         THEN /\ failed_tasks' = Append(failed_tasks, wtask[a])
              /\ stats' = [stats EXCEPT !.failed_tasks = @ + 1]
              /\ Return(a)
         ELSE /\ Return(a)
              /\ UNCHANGED <<failed_tasks, stats>>
    /\ UNCHANGED <<Memory, qsize_seen, Manager, tasks, attempts, completed_tasks, task_queue, arrival, Client>>

\* lines 281-283: record the completion, then iterate self.tasks.values()
Update_completed(a) ==
    /\ wpc[a] = "update_281"
    /\ completed_tasks' = Append(completed_tasks, wtask[a])
    /\ stats' = [stats EXCEPT !.completed_tasks = @ + 1]
    /\ witer' = [witer EXCEPT ![a] = [pos |-> 1, used |-> Len(tasks)]]
    /\ Goto(a, "check_301")
    /\ UNCHANGED <<Memory, qsize_seen, Manager, tasks, attempts, failed_tasks, task_queue, arrival,
                   agents, wtask, Client>>

\* ---------------------------------------- TaskManager._check_dependent_tasks
\* The test of lines 302-304 without the test of the status.
Promotable_any(t, completed_task_id) ==
    /\ completed_task_id \in tasks[t].dependencies
    /\ CanExecuteTask(t)

\* lines 302-304: the test one task of the iteration goes through
Promotable(t, completed_task_id) ==
    /\ tasks[t].status = PENDING
    /\ completed_task_id \in tasks[t].dependencies
    /\ CanExecuteTask(t)

\* line 301: the iterator's next().  A dict that changed size since the loop
\* began raises RuntimeError, which leaves update_task_status and is caught by
\* _run (line 120); a finished iteration returns; otherwise lines 302-304 test
\* the task at hand.
Check_next(a) ==
    /\ wpc[a] = "check_301"
    /\ IF Len(tasks) # witer[a].used \/ witer[a].pos > witer[a].used
       THEN Return(a)
       ELSE IF Promotable(witer[a].pos, wtask[a])
       THEN Goto(a, "check_305") /\ UNCHANGED <<wtask, witer>>
       ELSE /\ witer' = [witer EXCEPT ![a].pos = @ + 1]
            /\ UNCHANGED <<wpc, wtask>>
    /\ UNCHANGED <<Memory, qsize_seen, Manager, tasks, attempts, Lists, Queue, agents, Client>>

\* lines 305-306: put the unblocked task, refresh queue_size
Check_put(a) ==
    /\ wpc[a] = "check_305"
    /\ QueuePut(witer[a].pos)
    /\ witer' = [witer EXCEPT ![a].pos = @ + 1]
    /\ Goto(a, "check_301")
    /\ UNCHANGED <<Memory, qsize_seen, Manager, tasks, attempts, Lists, agents, wtask, Client>>

\* line 305: self.task_queue.put(task)
Check_put_only(a) ==
    /\ wpc[a] = "check_305"
    /\ PutOnly(witer[a].pos)
    /\ Goto(a, "check_306")
    /\ UNCHANGED <<Memory, qsize_seen, Manager, tasks, attempts, Lists, stats, agents, wtask, witer, Client>>

\* line 306, right-hand side: self.task_queue.qsize()
Check_qsize(a) ==
    /\ wpc[a] = "check_306"
    /\ ReadSize(a)
    /\ Goto(a, "check_306_store")
    /\ UNCHANGED <<Memory, Manager, tasks, attempts, Lists, Queue, agents, wtask, witer, Client>>

\* line 306, the assignment; back to the loop of line 301
Check_cache(a) ==
    /\ wpc[a] = "check_306_store"
    /\ WriteSize(a)
    /\ witer' = [witer EXCEPT ![a].pos = @ + 1]
    /\ Goto(a, "check_301")
    /\ UNCHANGED <<Memory, qsize_seen, Manager, tasks, attempts, Lists, task_queue, arrival, agents,
                   wtask, Client>>

\* ------------------------------------------- TaskManager.get_task_details
\* The dict returned for a task of the table, key by key, with the model's
\* value of each field (name, created_at and execution_time are not modelled);
\* the dict has no key for the task's result.
GetTaskDetails(t) ==
    [k \in {"id", "priority", "status", "started_at", "completed_at",
            "retry_count", "max_retries", "agent_id", "error"} |->
        CASE k = "id" -> t
          [] k = "priority" -> tasks[t].priority
          [] k = "status" -> tasks[t].status
          [] k = "started_at" -> tasks[t].started_at
          [] k = "completed_at" -> tasks[t].completed_at
          [] k = "retry_count" -> tasks[t].retry_count
          [] k = "max_retries" -> tasks[t].max_retries
          [] k = "agent_id" -> tasks[t].agent_id
          [] k = "error" -> tasks[t].error]

\* The None get_task_details returns: a dict of no key.
NoDetails == [k \in {} |-> None]

\* get_task_details forgetting the tasks that have ended.
GetTask_purged(task_id) ==
    IF task_id \in TaskIds /\ tasks[task_id].status \notin {COMPLETED, FAILED, CANCELLED}
    THEN GetTaskDetails(task_id)
    ELSE NoDetails

\* lines 337-356: the dict of a task of the table, None for any other id
GetTask(task_id) ==
    IF task_id \in TaskIds THEN GetTaskDetails(task_id) ELSE NoDetails

\* ------------------------------------------------------------------ Next
\* _execute_task with the calls it makes
Execute(a) ==
    \/ Exec_start(a)
    \/ Exec_returns(a)
    \/ Exec_raises(a)
    \/ Exec_retry_test(a)
    \/ Exec_retry_count(a)
    \/ Exec_retrying(a)
    \/ Retry_test(a)
    \/ Retry_pending(a)
    \/ Retry_put(a)
    \/ Update_test(a)
    \/ Update_completed(a)
    \/ Check_next(a)
    \/ Check_put(a)

Worker(a) == Run_get(a) \/ Execute(a)

\* _execute_task with its head taken statement by statement
ExecuteByLine(a) ==
    \/ Exec_fields(a)
    \/ Exec_running(a)
    \/ Exec_returns(a)
    \/ Exec_raises(a)
    \/ Exec_retry_test(a)
    \/ Exec_retry_count(a)
    \/ Exec_retrying(a)
    \/ Retry_test(a)
    \/ Retry_pending(a)
    \/ Retry_put(a)
    \/ Update_test(a)
    \/ Update_completed(a)
    \/ Check_next(a)
    \/ Check_put(a)

Engine ==
    \/ Start
    \/ AddTask_check
    \/ AddTask_put
    \/ CancelTask
    \/ CancelTask_set
    \/ \E a \in Agents : Worker(a)

Next == AddTask_register({CRITICAL, MEDIUM}, 0..MaxRetries, {UnknownId}) \/ Engine

\* The caller of the single-worker specification submits and starts; it does
\* not cancel.
NextQueue ==
    \/ AddTask_register(Priorities, {0, MaxRetries}, {})
    \/ Start
    \/ AddTask_check
    \/ AddTask_put
    \/ \E a \in Agents : Worker(a)

\* Any number of workers up to MaxAgents, MaxTasks submissions.
Spec == Init /\ [][Next]_vars

\* One worker, QueueTasks submissions.
SpecQueue == InitQueue /\ [][NextQueue]_vars

\* One worker, QueueTasks submissions of one priority, and the scheduling the
\* code runs under: a worker thread that can take a step takes one (the
\* threads are OS threads and the loop of _run never blocks), and a call of
\* add_task that was entered runs to its return.
NextLive ==
    \/ AddTask_register({MEDIUM}, {0, MaxRetries}, {})
    \/ Start
    \/ AddTask_check
    \/ AddTask_put
    \/ \E a \in Agents : Worker(a)

Fairness ==
    /\ WF_vars(AddTask_check \/ AddTask_put)
    /\ WF_vars(\E a \in Agents : Worker(a))

SpecLive == InitQueue /\ [][NextLive]_vars /\ Fairness

\* The caller also stops and restarts the workers; the workers run the loop of
\* _run statement by statement.
NextStop ==
    \/ AddTask_register({MEDIUM}, {0, MaxRetries}, {})
    \/ AddTask_check
    \/ AddTask_put
    \/ Start
    \/ Stop_flag
    \/ Stop_agent
    \/ \E a \in Agents : Loop_test(a) \/ Loop_get(a) \/ Execute(a)

SpecStop == Init /\ [][NextStop]_vars

\* MaxAgents workers, the first of which may stay inside a task's action for
\* ever (task.function need not return): its thread is promised no step.
\* Every other worker's thread takes the steps it can take, its tasks'
\* actions end, and a call the caller has entered runs to its return.
Stalled == 1

NextBlocked ==
    \/ AddTask_register({MEDIUM}, {0, MaxRetries}, {})
    \/ Start
    \/ AddTask_check
    \/ AddTask_put
    \/ CancelTask
    \/ CancelTask_set
    \/ \E a \in Agents : Worker(a)

FairnessBlocked ==
    /\ WF_vars(AddTask_check \/ AddTask_put \/ CancelTask_set)
    /\ \A a \in (1..MaxAgents) \ {Stalled} : WF_vars(Worker(a))

SpecBlocked ==
    InitWith(MaxAgents, MaxTasks, 1) /\ [][NextBlocked]_vars /\ FairnessBlocked

\* MaxAgents workers that run the head of _execute_task statement by
\* statement; the caller submits tasks of one priority, with dependencies.
NextByLine ==
    \/ AddTask_register({MEDIUM}, {0, MaxRetries}, {})
    \/ Start
    \/ AddTask_check
    \/ AddTask_put
    \/ \E a \in Agents : Run_get(a) \/ ExecuteByLine(a)

SpecByLine == InitWith(MaxAgents, MaxTasks, 1) /\ [][NextByLine]_vars

\* One worker that the caller stops and starts again at any time, also while
\* the thread of an earlier start is still inside a task's action: the join
\* of stop gives up after 5 seconds.
NextRestart ==
    \/ AddTask_register({MEDIUM}, {0, MaxRetries}, {})
    \/ AddTask_check
    \/ AddTask_put
    \/ Start_spawn
    \/ Stop_flag
    \/ Stop_agent_join
    \/ \E th \in DOMAIN wpc : Loop_test(th) \/ Loop_get(th) \/ Execute(th)

SpecRestart == InitWith(1, MaxTasks, MaxThreads) /\ [][NextRestart]_vars

\* One worker and a caller that submits tasks of two priorities and calls
\* start() and stop() at any time, also start() while the engine runs and
\* stop() while it is stopped; the join of stop gives up on a thread that is
\* inside a task's action.
NextCalls ==
    \/ AddTask_register({CRITICAL, LOW}, {0, MaxRetries}, {})
    \/ AddTask_check
    \/ AddTask_put
    \/ Start_call
    \/ Start_run
    \/ Stop_call
    \/ Stop_test
    \/ Stop_agent_join
    \/ \E th \in DOMAIN wpc : Loop_test(th) \/ Loop_get(th) \/ Execute(th)

SpecCalls == InitWith(1, MaxTasks, MaxThreads) /\ [][NextCalls]_vars

\* _run and _execute_task with every refresh of the cached size taken
\* statement by statement
WorkerBySize(a) ==
    \/ Get_pop(a)
    \/ Get_qsize(a)
    \/ Get_cache(a)
    \/ Exec_start(a)
    \/ Exec_returns(a)
    \/ Exec_raises(a)
    \/ Exec_retry_test(a)
    \/ Exec_retry_count(a)
    \/ Exec_retrying(a)
    \/ Retry_test(a)
    \/ Retry_pending(a)
    \/ Retry_put_only(a)
    \/ Retry_qsize(a)
    \/ Retry_cache(a)
    \/ Update_test(a)
    \/ Update_completed(a)
    \/ Check_next(a)
    \/ Check_put_only(a)
    \/ Check_qsize(a)
    \/ Check_cache(a)

\* MaxAgents workers and a caller that submits while they run; every thread
\* refreshes stats['queue_size'] in two steps, the read of the size and the
\* assignment.
NextBySize ==
    \/ AddTask_register({MEDIUM}, {0, MaxRetries}, {})
    \/ Start
    \/ AddTask_check
    \/ AddTask_put_only
    \/ AddTask_qsize
    \/ AddTask_cache
    \/ \E a \in Agents : WorkerBySize(a)

SpecBySize == InitWith(MaxAgents, MaxTasks, 1) /\ [][NextBySize]_vars

\* One worker and MaxCallers threads that submit concurrently.  A Task object
\* is known by its id throughout the model, which is exact as long as no
\* entry of the table was replaced: the specification follows the program up
\* to the first replacement (total_tasks counts the registrations).
NextSubmit ==
    /\ stats.total_tasks = Len(tasks)
    /\ \/ \E c \in 1..MaxCallers :
             Submit_id(c) \/ Submit_register(c) \/ Submit_check(c) \/ Submit_put(c)
       \/ Start
       \/ \E a \in Agents : Worker(a)

SpecSubmit == InitQueue /\ [][NextSubmit]_vars

\* ------------------------------------------------------------ MemoryRouter
\* The store a call works on: BaseRef for base_store, the position of a
\* context in context_stores, Missing for a context that does not exist.
BaseRef == 0
Missing == -1

Position(context_id) ==
    IF \E i \in 1..Len(context_stores) : context_stores[i].context_id = context_id
    THEN CHOOSE i \in 1..Len(context_stores) :
            context_stores[i].context_id = context_id
    ELSE Missing

\* get_active_store
ActiveStore ==
    IF active_context = NoneContext THEN BaseRef ELSE Position(active_context)

\* lines 49-56 (and 106-113, 132-139): the store of the context_id passed
Select(context_id) ==
    IF context_id = NoneContext THEN ActiveStore
    ELSE IF context_id = "base" THEN BaseRef
    ELSE Position(context_id)

StoreAt(r) == IF r = BaseRef THEN base_store ELSE context_stores[r].store

\* A store that changes its memories without writing its file.
PutStore_unsaved(r, store) ==
    /\ IF r = BaseRef
       THEN base_store' = store /\ UNCHANGED context_stores
       ELSE /\ context_stores' = [context_stores EXCEPT ![r].store = store]
            /\ UNCHANGED base_store
    /\ UNCHANGED files

\* The end of save_memory, delete_memory and clear_all_memories: the store
\* has its new memories and _save_to_disk has written them to its path.
PutStore(r, store) ==
    /\ IF r = BaseRef
       THEN base_store' = store /\ UNCHANGED context_stores
       ELSE /\ context_stores' = [context_stores EXCEPT ![r].store = store]
            /\ UNCHANGED base_store
    /\ files' = [files EXCEPT ![store.storage_path] = SaveToDisk(store.memories)]

\* One call of the client: what it called with and what came back (value is
\* the boolean returned; for save_memory, whether an id was returned or
\* ValueError raised).
Call(op, context_id, memory_id, value) ==
    /\ quota > 0
    /\ quota' = quota - 1
    /\ ret' = [op |-> op, context_id |-> context_id, content |-> <<>>,
               importance |-> ImportanceZero, tags |-> <<>>,
               memory_id |-> memory_id, value |-> value]

\* time passes
Tick ==
    /\ clock < MaxClock
    /\ clock' = clock + 1
    /\ UNCHANGED <<base_store, context_stores, active_context, files, ret, quota,
                   Scheduler>>

\* list_contexts
ListContexts ==
    <<"base">> \o [i \in 1..Len(context_stores) |-> context_stores[i].context_id]

\* create_context
CreateContext(context_id) ==
    /\ IF Position(context_id) # Missing
       THEN /\ Call("create_context", context_id, None, FALSE)
            /\ UNCHANGED context_stores
       ELSE /\ Call("create_context", context_id, None, TRUE)
            /\ context_stores' =
                  Append(context_stores,
                         [context_id |-> context_id,
                          store |-> NewStore(ContextPath(context_id))])
    /\ UNCHANGED <<clock, base_store, active_context, files, Scheduler>>

\* set_active_context
SetActiveContext(context_id) ==
    /\ IF context_id = "base"
       THEN /\ active_context' = NoneContext
            /\ Call("set_active_context", context_id, None, TRUE)
       ELSE IF Position(context_id) = Missing
       THEN /\ UNCHANGED active_context
            /\ Call("set_active_context", context_id, None, FALSE)
       ELSE /\ active_context' = context_id
            /\ Call("set_active_context", context_id, None, TRUE)
    /\ UNCHANGED <<clock, base_store, context_stores, files, Scheduler>>

\* MemoryRouter.save_memory with MemoryStore.save_memory: ValueError for a
\* context that does not exist or a content that fails the validation;
\* otherwise the entry is stored, the file written and the id returned.
RouterSave(content, importance, tags, context_id) ==
    /\ quota > 0
    /\ quota' = quota - 1
    /\ LET r == Select(context_id)
           saved == r # Missing /\ ContentValid(content)
       IN  /\ ret' = [op |-> "save_memory", context_id |-> context_id,
                      content |-> content, importance |-> importance,
                      tags |-> tags,
                      memory_id |-> IF saved THEN clock ELSE None,
                      value |-> saved]
           /\ IF saved
              THEN PutStore(r, SaveMemory(StoreAt(r), content, importance, tags))
              ELSE UNCHANGED <<base_store, context_stores, files>>
    /\ UNCHANGED <<clock, active_context, Scheduler>>

\* MemoryRouter.retrieve_memory
RouterRetrieve(memory_id, context_id) ==
    IF context_id = NoneContext
    THEN LET entry == RetrieveMemory(StoreAt(ActiveStore), memory_id)
         IN  IF entry = NoEntry /\ active_context # NoneContext
             THEN RetrieveMemory(base_store, memory_id)
             ELSE entry
    ELSE IF context_id = "base"
    THEN RetrieveMemory(base_store, memory_id)
    ELSE IF Position(context_id) = Missing
    THEN NoEntry
    ELSE RetrieveMemory(StoreAt(Position(context_id)), memory_id)

\* MemoryRouter.delete_memory with MemoryStore.delete_memory
RouterDelete(memory_id, context_id) ==
    /\ LET r == Select(context_id) IN
         IF r # Missing /\ memory_id \in DOMAIN StoreAt(r).memories
         THEN /\ PutStore(r, DeleteMemory(StoreAt(r), memory_id))
              /\ Call("delete_memory", context_id, memory_id, TRUE)
         ELSE /\ UNCHANGED <<base_store, context_stores, files>>
              /\ Call("delete_memory", context_id, memory_id, FALSE)
    /\ UNCHANGED <<clock, active_context, Scheduler>>

\* clear_context with clear_all_memories
ClearContext(context_id) ==
    /\ LET r == Select(context_id) IN
         IF r # Missing
         THEN /\ PutStore(r, ClearAllMemories(StoreAt(r)))
              /\ Call("clear_context", context_id, None, TRUE)
         ELSE /\ UNCHANGED <<base_store, context_stores, files>>
              /\ Call("clear_context", context_id, None, FALSE)
    /\ UNCHANGED <<clock, active_context, Scheduler>>

\* The sequence s without its entry at position i.
Without(s, i) == SubSeq(s, 1, i - 1) \o SubSeq(s, i + 1, Len(s))

\* delete_context returning True with the context left in place.
DeleteContext_kept(context_id) ==
    /\ IF context_id = "base" \/ Position(context_id) = Missing
       THEN Call("delete_context", context_id, None, FALSE)
       ELSE Call("delete_context", context_id, None, TRUE)
    /\ UNCHANGED <<clock, base_store, context_stores, active_context, files,
                   Scheduler>>

\* delete_context: False for "base" and for a context that does not exist;
\* otherwise the context's store is cleared (its file written), the context
\* removed, and the active context reset if it was this one.
DeleteContext(context_id) ==
    /\ IF context_id = "base" \/ Position(context_id) = Missing
       THEN /\ Call("delete_context", context_id, None, FALSE)
            /\ UNCHANGED <<context_stores, active_context, files>>
       ELSE /\ Call("delete_context", context_id, None, TRUE)
            /\ files' = [files EXCEPT ![StoreAt(Position(context_id)).storage_path]
                                         = SaveToDisk(EmptyDict)]
            /\ context_stores' = Without(context_stores, Position(context_id))
            /\ active_context' = IF active_context = context_id
                                 THEN NoneContext ELSE active_context
    /\ UNCHANGED <<clock, base_store, Scheduler>>

\* The client of the router: any call with any of its inputs, while the clock
\* runs.
NextMemory ==
    \/ Tick
    \/ \E c \in ContextIds : CreateContext(c)
    \/ \E c \in ContextIds : SetActiveContext(c)
    \/ \E content \in Contents, importance \in Importances, tags \in TagLists,
          c \in ContextIds \cup {NoneContext} :
          RouterSave(content, importance, tags, c)
    \/ \E memory_id \in 1..MaxClock, c \in ContextIds \cup {NoneContext} :
          RouterDelete(memory_id, c)
    \/ \E c \in ContextIds \cup {NoneContext} : ClearContext(c)
    \/ \E c \in ContextIds : DeleteContext(c)

\* A MemoryRouter on a fresh base store, before any task is submitted.
SpecMemory == InitWith(1, 0, 1) /\ [][NextMemory]_vars

\* ================================================================ claims
InQueue(t) == t \in Range(task_queue)
Holders(t) == {a \in Agents : wtask[a] = t}
\* Nothing is under way for task t: it is not queued, no worker has it in
\* hand and the caller is not inside a call on it.
AtRest(t) == ~InQueue(t) /\ Holders(t) = {} /\ caller.task # t
\* Worker a takes a task off the queue in this step.
Claims(a) == wpc[a] = "run_112" /\ wpc'[a] = "exec_126"

\* C1: a task never goes to Running while one of its dependencies is missing
\* from the completed-task list.
C1_DependenciesBeforeRunning ==
    [][\A t \in TaskIds :
          (tasks[t].status # RUNNING /\ tasks'[t].status = RUNNING)
          => \A d \in tasks[t].dependencies : d \in Range(completed_tasks)]_vars

C1_Witness ==
    \E t \in TaskIds : tasks[t].status = RUNNING /\ tasks[t].dependencies # {}

\* C2: a task whose action always raises is executed max_retries + 1 times and
\* ends Failed, with retry_count = max_retries and its id in failed_tasks.
\* Stated on the runs' end: once such a task has been tried and nothing is
\* under way for it any more, that is the state it is in.
C2_AlwaysRaisingEndsFailed ==
    \A t \in TaskIds :
        (AtRest(t) /\ attempts[t] > 0 /\ ~tasks[t].result)
        => /\ tasks[t].status = FAILED
           /\ tasks[t].retry_count = tasks[t].max_retries
           /\ attempts[t] = tasks[t].max_retries + 1
           /\ t \in Range(failed_tasks)

\* C3: a task in the failed-task list has retry_count = max_retries and was
\* attempted max_retries + 1 times.
C3_FailedAfterAllRetries ==
    \A t \in Range(failed_tasks) :
        /\ tasks[t].retry_count = tasks[t].max_retries
        /\ attempts[t] = tasks[t].max_retries + 1

\* C4: retry_count never exceeds max_retries.
C4_RetryCountBounded ==
    \A t \in TaskIds : tasks[t].retry_count <= tasks[t].max_retries

\* C5: from a worker's dequeue of a task to the end of its report to the
\* Coordinator, no other worker has the same task in hand.
C5_OneHolder ==
    \A t \in TaskIds : Cardinality(Holders(t)) <= 1

\* C6: every change of a task's status is one of the edges of the state
\* machine.
Edges ==
    {<<PENDING, RUNNING>>, <<RUNNING, COMPLETED>>, <<RUNNING, FAILED>>,
     <<FAILED, RETRYING>>, <<RETRYING, PENDING>>, <<PENDING, CANCELLED>>}

C6_OnlyStateMachineEdges ==
    [][\A t \in TaskIds :
          tasks'[t].status # tasks[t].status
          => <<tasks[t].status, tasks'[t].status>> \in Edges]_vars

\* C7: once cancel_task has returned True the task's status is Cancelled (line
\* 363 sets it and line 365 returns), it stays Cancelled, and no worker takes
\* the task off the queue.
C7_CancelledNeverClaimed ==
    [][\A t \in TaskIds :
          tasks[t].status = CANCELLED
          => /\ tasks'[t].status = CANCELLED
             /\ \A a \in Agents : Claims(a) => wtask'[a] # t]_vars

\* C8: cancel_task goes on to line 363 (and True) only for an id of the task
\* table whose status it found Pending, and that test changes nothing; the
\* step at line 363 changes that task's status and nothing else; no status
\* becomes Cancelled in any other way; and a Running task leaves Running by a
\* step of a worker that holds it, never by a cancel_task that found it
\* Running.
EngineState ==
    <<Manager, tasks, attempts, Lists, Queue, agents, Threads, budget, sub, qsize_seen>>

Scenario9 ==
    /\ max_agents = 1
    /\ Len(tasks) >= 3
    /\ tasks[1].priority = LOW /\ tasks[2].priority = CRITICAL
    /\ tasks[3].priority = MEDIUM
    /\ \A t \in 1..3 : tasks[t].dependencies = {}

\* C9 as claimed: Critical enters Running before Medium, and Medium before Low.
C9_CriticalMediumLow ==
    Scenario9 => /\ tasks[3].started_at => tasks[2].started_at
                 /\ tasks[1].started_at => tasks[3].started_at

\* C9 as amended: Critical enters Running before Medium, and the worker never
\* takes the Low task off the queue while the Critical or the Medium task is
\* in it, nor the Medium task while the Critical one is in it: Medium enters
\* Running before Low whenever Medium was queued before the worker took Low.
C9_OrderAmongQueued ==
    [][/\ Scenario9' => (tasks'[3].started_at => tasks'[2].started_at)
       /\ \A a \in Agents :
             (Claims(a) /\ Scenario9)
             => /\ wtask'[a] = 1 => (~InQueue(2) /\ ~InQueue(3))
                /\ wtask'[a] = 3 => ~InQueue(2)]_vars

C9_Witness ==
    Scenario9 /\ \A t \in 1..3 : tasks[t].started_at

\* C10: among the tasks of one priority that are in the queue together, the
\* one put first is the one taken first.
RECURSIVE FirstIndex(_, _)
FirstIndex(s, x) == IF Head(s) = x THEN 1 ELSE 1 + FirstIndex(Tail(s), x)

C10_FifoAmongEqualPriority ==
    [][\A a \in Agents :
          Claims(a)
          => \A i \in 1..(FirstIndex(arrival, wtask'[a]) - 1) :
                tasks[arrival[i]].priority # tasks[wtask'[a]].priority]_vars

\* The entries of sequence s that are x.
Occurrences(s, x) == Cardinality({i \in 1..Len(s) : s[i] = x})

\* C11: the Ready Queue never holds two entries of one task.
C11_AtMostOneEntry ==
    \A t \in TaskIds : Occurrences(task_queue, t) <= 1

\* C13: once a task whose action never raised is terminal, the snapshot
\* get_task_details returns for it carries the result and an empty error.
C13_SnapshotCarriesResult ==
    \A t \in TaskIds :
        (tasks[t].status = COMPLETED /\ ~tasks[t].error)
        => /\ "result" \in DOMAIN GetTaskDetails(t)
           /\ GetTaskDetails(t)["result"] = TRUE
           /\ GetTaskDetails(t)["error"] = FALSE

\* C14: no task has both a result and an error.
C14_ResultXorError ==
    \A t \in TaskIds : ~(tasks[t].result /\ tasks[t].error)

\* C16: a Pending task outside the queue and outside every worker's hands,
\* one of whose dependencies names no task or is in the failed-task list
\* without being in the completed-task list, stays so.
DeadBlocked(u) ==
    /\ \E d \in tasks[u].dependencies :
          \/ d \notin TaskIds
          \/ d \in Range(failed_tasks) /\ d \notin Range(completed_tasks)
    /\ tasks[u].status = PENDING
    /\ ~InQueue(u)
    /\ Holders(u) = {}

C16_DeadDependencyStaysPending ==
    [][\A u \in TaskIds : DeadBlocked(u) => DeadBlocked(u)']_vars

\* C17: a task no worker holds is not Running and not Retrying.
C17_NeverDropped ==
    \A t \in TaskIds :
        Holders(t) = {} => tasks[t].status \notin {RUNNING, RETRYING}

\* C12: add_task appends a Pending task to the task table and holds its id
\* (lines 232-248) without touching the queue; at line 251 it goes on to the
\* put exactly when every dependency of the task is in the completed-task
\* list, and otherwise returns with the queue as it was; the put of lines
\* 252-253 adds one entry, of that task, and sets the queue depth to the
\* queue's length; no step of add_task calls the task's action.
C12_SubmitQueuesIffReady ==
    [][/\ (caller.pc = "idle" /\ caller'.pc = "add_251")
          => /\ tasks' = Append(tasks, tasks'[Len(tasks')])
             /\ caller'.task = Len(tasks')
             /\ tasks'[caller'.task].status = PENDING
             /\ stats'.total_tasks = stats.total_tasks + 1
             /\ UNCHANGED <<task_queue, completed_tasks, failed_tasks>>
       /\ (caller.pc = "add_251" /\ caller' # caller)
          => /\ caller'.pc = "add_252"
                <=> \A d \in tasks[caller.task].dependencies :
                       d \in Range(completed_tasks)
             /\ caller'.pc \in {"add_252", "idle"}
             /\ UNCHANGED <<tasks, task_queue, stats>>
       /\ (caller.pc = "add_252" /\ caller' # caller)
          => /\ caller'.pc = "idle"
             /\ Len(task_queue') = Len(task_queue) + 1
             /\ Occurrences(task_queue', caller.task)
                  = Occurrences(task_queue, caller.task) + 1
             /\ stats'.queue_size = Len(task_queue')
             /\ UNCHANGED tasks
       /\ caller' # caller => \A t \in TaskIds : attempts'[t] = attempts[t]]_vars

\* add_task is about to queue a task that has a dependency, and another task
\* was submitted and left out of the queue.
C12_Witness ==
    /\ caller.pc = "add_252"
    /\ tasks[caller.task].dependencies # {}
    /\ \E u \in TaskIds :
          /\ tasks[u].dependencies # {}
          /\ tasks[u].status = PENDING
          /\ arrival = <<>> /\ attempts[u] = 0

\* C15: once the Coordinator is started, a submitted task whose action never
\* raises and whose dependencies are all in the completed-task list
\* eventually is Completed.
C15_ReadyTaskCompletes ==
    \A t \in 1..QueueTasks :
        [](t \in TaskIds => ~tasks[t].error)
        => ((/\ is_running
             /\ t \in TaskIds
             /\ \A d \in tasks[t].dependencies : d \in Range(completed_tasks))
            ~> (t \in TaskIds /\ tasks[t].status = COMPLETED))

\* C18: the step in which a task's action raises records the failure on the
\* task (error set, status Failed) and adds one to the worker's failed counter
\* and leaves the worker running; no worker's thread ever ends; a worker at
\* the head of its loop has no current task; a worker whose task's action
\* raised comes back to the head of its loop; and a worker at the head of its
\* loop that has had a failure takes the next task when the queue has one.
C18_RaisingActionKeepsWorker ==
    /\ [][\A a \in Agents :
             /\ (wpc[a] = "exec_136" /\ wpc'[a] = "exec_159")
                => /\ tasks'[wtask[a]].error
                   /\ tasks'[wtask[a]].status = FAILED
                   /\ agents'[a].failed_tasks = agents[a].failed_tasks + 1
                   /\ agents'[a].is_running
             /\ wpc[a] # "off" => wpc'[a] # "off"]_vars
    /\ [](\A a \in Agents :
             wpc[a] = "run_112"
             => agents[a].current_task = None /\ wtask[a] = None)
    /\ \A a \in 1..MaxAgents :
          /\ (a \in Agents /\ wpc[a] = "exec_159")
             ~> (a \in Agents /\ wpc[a] = "run_112")
          /\ (/\ a \in Agents
              /\ wpc[a] = "run_112"
              /\ agents[a].failed_tasks > 0
              /\ task_queue # <<>>)
             ~> (a \in Agents /\ wpc[a] = "exec_126")

\* A worker that has had a failure is executing a task it had not tried before.
C18_Witness ==
    \E a \in Agents :
        /\ agents[a].failed_tasks > 0
        /\ wpc[a] = "exec_136"
        /\ attempts[wtask[a]] = 0
        /\ \E t \in TaskIds : tasks[t].error /\ tasks[t].agent_id = a

\* C19: no step of stop changes a task, the queue or a worker thread's
\* position; a worker's thread ends only at the head of its loop, with the
\* flag cleared and no task in hand; a worker in the middle of a task can
\* always take its next step, stopped or not; and while every worker's thread
\* has ended no task's status becomes Running.
InStop ==
    \/ caller' # caller /\ (caller.pc = "stop_210" \/ caller'.pc = "stop_210")
    \/ \E a \in Agents : agents[a].is_running /\ ~agents'[a].is_running

AllEnded == \A a \in Agents : wpc[a] = "off"

C19_StopLetsTasksFinish ==
    /\ [][/\ InStop => UNCHANGED <<tasks, task_queue, completed_tasks,
                                   failed_tasks, wpc, wtask>>
          /\ \A a \in Agents :
                (wpc[a] # "off" /\ wpc'[a] = "off")
                => /\ wpc[a] = "run_112"
                   /\ ~agents[a].is_running
                   /\ wtask[a] = None
          /\ AllEnded
             => \A t \in TaskIds :
                   tasks'[t].status = RUNNING => tasks[t].status = RUNNING]_vars
    /\ [](\A a \in Agents :
             wpc[a] \notin {"off", "run_112", "run_115"} => ENABLED Execute(a))

\* A stopped worker is in the middle of a task's action while another task
\* waits, Pending, in the queue.
C19_Witness ==
    \E a \in Agents :
        /\ ~agents[a].is_running
        /\ wpc[a] = "exec_136"
        /\ tasks[wtask[a]].status = RUNNING
        /\ \E u \in TaskIds : InQueue(u) /\ tasks[u].status = PENDING

\* C20: no two calls of add_task that are under way hold the same id, and
\* the registration of line 247 adds an entry to the task table: it never
\* replaces one.
C20_DistinctIds ==
    [][/\ \A c, d \in 1..MaxCallers :
             (c # d /\ sub'[c].pc # "idle" /\ sub'[d].pc # "idle")
             => sub'[c].task_id # sub'[d].task_id
       /\ \A c \in 1..MaxCallers :
             (sub[c].pc = "add_247" /\ sub'[c].pc = "add_251")
             => /\ sub[c].task_id \notin TaskIds
                /\ Len(tasks') = Len(tasks) + 1]_vars

\* The ids add_task has returned: those of the table but the one of a call of
\* add_task that has registered its task and not returned yet.
Returned ==
    {t \in TaskIds : ~(caller.pc \in {"add_251", "add_252"} /\ caller.task = t)}

\* C21: an id add_task has returned stays one, and get_task_details returns a
\* record of that id for it after every step, whatever the task's status;
\* between two calls of the caller, get_task_details returns None for every
\* id add_task has not returned.
C21_TableOnlyGrows ==
    [][/\ \A id \in Returned :
             /\ id \in Returned'
             /\ GetTask(id)' # NoDetails
             /\ GetTask(id)'["id"] = id
       /\ caller'.pc = "idle"
          => \A id \in (0..(MaxTasks + 1)) \ Returned' :
                GetTask(id)' = NoDetails]_vars

\* The caller is between two calls; one returned id is of a task in the
\* failed-task list, another of a cancelled task.
C21_Witness ==
    /\ caller.pc = "idle"
    /\ \E t, u \in Returned :
          /\ t \in Range(failed_tasks) /\ tasks[t].status = FAILED
          /\ tasks[u].status = CANCELLED
          /\ GetTask(t) # NoDetails /\ GetTask(u) # NoDetails
    /\ GetTask(UnknownId) = NoDetails

\* C22: started_at and completed_at are assigned at most once per task: the
\* step of line 128 finds started_at unset, the step of line 141 finds
\* completed_at unset (created_at is assigned by the constructor only).
C22_TimestampsSetOnce ==
    [][\A a \in Agents :
          /\ (wpc[a] = "exec_126" /\ wpc'[a] = "exec_136")
             => ~tasks[wtask[a]].started_at
          /\ (wpc[a] = "exec_136" /\ wpc'[a] = "exec_166")
             => ~tasks[wtask[a]].completed_at]_vars

\* The memories of the store at r after the step (a call changes no
\* context's position but delete_context).
MemoriesAfter(r) ==
    IF r = BaseRef THEN base_store'.memories ELSE context_stores'[r].store.memories

\* The client's call of this step is op and it returned value.
Called(op, value) == quota' # quota /\ ret'.op = op /\ ret'.value = value

\* C23: a save_memory that returns an id returns one the store does not hold
\* yet, leaves every entry the store held as it was, and stores under the id
\* an entry with the stripped content, the importance clamped to [0, 1], the
\* tags passed and the id returned.
C23_SaveUnderFreshId ==
    [][Called("save_memory", TRUE)
       => LET r == Select(ret'.context_id)
              before == StoreAt(r).memories
              after == MemoriesAfter(r)
              x == ret'.importance
          IN  /\ ret'.memory_id \notin DOMAIN before
              /\ \A id \in DOMAIN before :
                    id \in DOMAIN after /\ after[id] = before[id]
              /\ ret'.memory_id \in DOMAIN after
              /\ after[ret'.memory_id].content = Strip(ret'.content)
              /\ after[ret'.memory_id].importance =
                    IF x < ImportanceZero THEN ImportanceZero
                    ELSE IF x > ImportanceOne THEN ImportanceOne ELSE x
              /\ after[ret'.memory_id].tags = ret'.tags
              /\ after[ret'.memory_id].id = ret'.memory_id]_vars

\* What a new MemoryStore opened on the path of store holds.
Reopened(store) == LoadMemories(files[store.storage_path])

C25_ContextLifecycle ==
    [][\A c \in ContextIds :
          /\ (quota' # quota /\ ret'.op = "create_context"
               /\ ret'.context_id = c /\ Position(c) = Missing)
             => /\ ret'.value
                /\ c \in Range(ListContexts')
                /\ "base" \in Range(ListContexts')
          /\ (quota' # quota /\ ret'.op = "delete_context"
               /\ ret'.context_id = c)
             => IF c # "base" /\ Position(c) # Missing
                THEN /\ ret'.value
                     /\ c \notin Range(ListContexts')
                     /\ \A id \in 1..MaxClock : RouterRetrieve(id, c)' = NoEntry
                     /\ active_context' = IF active_context = c
                                          THEN NoneContext ELSE active_context
                ELSE /\ ~ret'.value
                     /\ UNCHANGED <<base_store, context_stores,
                                    active_context, files>>]_vars

\* The client's last call, a delete_context, has returned True: the context
\* is off the list, its file holds no entry, base is the active context and
\* the base store is empty.
C25_Witness ==
    /\ ret.op = "delete_context" /\ ret.value
    /\ quota = 0
    /\ ret.context_id \notin Range(ListContexts)
    /\ active_context = NoneContext
    /\ base_store.memories = EmptyDict
    /\ files[ContextPath(ret.context_id)].exists
    /\ files[ContextPath(ret.context_id)].data = EmptyDict

\* C26: the task get_next_task returns has the smallest priority ordinal of
\* the tasks that were in the queue at that moment: no queued task's ordinal
\* is strictly below it.
C26_PopsSmallestOrdinal ==
    [][\A a \in Agents :
          Claims(a)
          => \A u \in Range(task_queue) :
                tasks[u].priority >= tasks[wtask'[a]].priority]_vars

\* The worker has just taken the Critical task, submitted last, off a queue
\* that still holds the Low and the Medium task submitted before it.
C26_Witness ==
    /\ Len(tasks) = 3
    /\ tasks[1].priority = LOW /\ tasks[2].priority = MEDIUM
    /\ tasks[3].priority = CRITICAL
    /\ \E a \in Agents : wpc[a] = "exec_126" /\ wtask[a] = 3
    /\ Range(task_queue) = {1, 2}

\* C27: a worker has at most one thread running its loop, and at most one
\* Running task names it as its executor.
C27_OneTaskPerWorker ==
    \A a \in Agents :
        /\ Cardinality({th \in DOMAIN wpc : AgentOf(th) = a /\ wpc[th] # "off"}) <= 1
        /\ Cardinality({t \in TaskIds : tasks[t].status = RUNNING
                                        /\ tasks[t].agent_id = a}) <= 1

C29_SubmittedFieldsFixed ==
    [][/\ Len(tasks') >= Len(tasks)
       /\ \A t \in TaskIds :
             /\ tasks'[t].priority = tasks[t].priority
             /\ tasks'[t].dependencies = tasks[t].dependencies
             /\ tasks'[t].max_retries = tasks[t].max_retries
             /\ GetTask(t)'["id"] = GetTask(t)["id"]
       /\ \A a \in Agents :
             (wpc[a] = "retry_275" /\ wpc'[a] # "retry_275")
             => /\ Occurrences(task_queue', wtask[a])
                     = Occurrences(task_queue, wtask[a]) + 1
                /\ Len(task_queue') = Len(task_queue) + 1
                /\ tasks'[wtask[a]].priority = tasks[wtask[a]].priority]_vars

\* A Critical task that was retried is back in the queue, Pending, and
\* another task is Cancelled.
C29_Witness ==
    \E t, u \in TaskIds :
        /\ tasks[t].priority = CRITICAL
        /\ tasks[t].retry_count > 0
        /\ tasks[t].status = PENDING
        /\ InQueue(t)
        /\ tasks[u].status = CANCELLED

\* C30: a Running task has started_at set and names as its executor a worker
\* whose current task it is; a Completed task has completed_at set.
C30_RunningIsHeld ==
    \A t \in TaskIds :
        /\ tasks[t].status = RUNNING
           => /\ tasks[t].started_at
              /\ tasks[t].agent_id \in Agents
              /\ agents[tasks[t].agent_id].current_task = t
        /\ tasks[t].status = COMPLETED => tasks[t].completed_at

\* C31: the failed-task list and the completed-task list share no id; an id
\* enters the failed-task list only while its task is Failed with
\* retry_count >= max_retries, and at most once; a task of the failed-task
\* list is not put on the queue and its action is not called again.
C31_FailedIsFinal ==
    [][\A t \in TaskIds :
          /\ ~(t \in Range(failed_tasks') /\ t \in Range(completed_tasks'))
          /\ Occurrences(failed_tasks', t) <= 1
          /\ Occurrences(failed_tasks', t) > Occurrences(failed_tasks, t)
             => /\ tasks[t].status = FAILED
                /\ tasks[t].retry_count >= tasks[t].max_retries
          /\ t \in Range(failed_tasks)
             => /\ Occurrences(task_queue', t) <= Occurrences(task_queue, t)
                /\ attempts'[t] = attempts[t]]_vars

\* C32: every entry of the queue is a Pending task all of whose dependencies
\* are in the completed-task list.
C32_QueueHoldsReadyPending ==
    \A i \in 1..Len(task_queue) :
        /\ tasks[task_queue[i]].status = PENDING
        /\ \A d \in tasks[task_queue[i]].dependencies : d \in Range(completed_tasks)

\* C33: with two or more workers and tasks that are retried, an id is in the
\* completed-task list at most once, and once no worker has a task in hand
\* the completed counter is the number of tasks that reached Completed.
\* Stated for tasks without dependencies, which reach the queue through
\* add_task and retry_task only.
C33_CompletedOnce ==
    /\ \A t \in TaskIds :
          tasks[t].dependencies = {} => Occurrences(completed_tasks, t) <= 1
    /\ (/\ \A t \in TaskIds : tasks[t].dependencies = {}
        /\ \A a \in DOMAIN wtask : wtask[a] = None)
       => stats.completed_tasks = Cardinality({t \in TaskIds : tasks[t].completed_at})

\* No call of the caller and no task of a worker is under way.
Quiet ==
    /\ caller.pc = "idle"
    /\ \A a \in DOMAIN wtask : wtask[a] = None

\* C34: no promotion is lost: when nothing is under way, a Pending task all of
\* whose dependencies are in the completed-task list is on the queue (no task
\* is cancelled in the specification this is checked under).
C34_NoPromotionLost ==
    \A t \in TaskIds :
        (/\ Quiet
         /\ tasks[t].status = PENDING
         /\ \A d \in tasks[t].dependencies : d \in Range(completed_tasks))
        => InQueue(t)

\* A cancelled task that is out of the engine's hands: not queued, held by
\* no worker, and no worker stands before the put of line 305 for it.
Shelved(t) ==
    /\ tasks[t].status = CANCELLED
    /\ ~InQueue(t)
    /\ Holders(t) = {}
    /\ \A a \in DOMAIN wpc : ~(wpc[a] = "check_305" /\ witer[a].pos = t)

\* C35: a task that is cancelled while one of its dependencies is not in the
\* completed-task list is out of the engine's hands from then on: whatever
\* completes later, it is not put on the queue and its status stays Cancelled.
C35_CancelledWaitingStaysOut ==
    [][\A t \in TaskIds :
          /\ (/\ tasks[t].status # CANCELLED
              /\ tasks'[t].status = CANCELLED
              /\ \E d \in tasks[t].dependencies : d \notin Range(completed_tasks))
             => Shelved(t)'
          /\ Shelved(t) => Shelved(t)']_vars

\* A task cancelled before it was ever queued or run, whose dependencies have
\* completed since, with nothing under way.
C35_Witness ==
    \E t \in TaskIds :
        /\ Shelved(t)
        /\ attempts[t] = 0
        /\ tasks[t].dependencies # {}
        /\ \A d \in tasks[t].dependencies : d \in Range(completed_tasks)
        /\ Quiet

\* The engine is not started: the flag is cleared and no stop() is under way.
NotStarted == ~is_running /\ caller.pc # "stop_210"
\* Thread th takes a task off the queue in this step.
Takes(th) == wpc[th] # "exec_126" /\ wpc'[th] = "exec_126"

\* C36: while the engine is not started, before the first start() or after
\* a stop() that has returned, add_task registers the task as Pending and
\* puts a ready one on the queue, and no task becomes Running; a thread that
\* takes a task off the queue takes one of the smallest priority ordinal
\* among the queued.
C36_IdleUntilStart ==
    [][/\ NotStarted
          => /\ \A t \in TaskIds : tasks[t].status # RUNNING => tasks'[t].status # RUNNING
             /\ Len(tasks') > Len(tasks) => tasks'[Len(tasks')].status = PENDING
             /\ \A t \in TaskIds :
                   (caller.pc = "add_251" /\ caller.task = t /\ caller'.pc # "add_251")
                   => (caller'.pc = "add_252" <=> CanExecuteTask(t))
             /\ \A t \in TaskIds :
                   (caller.pc = "add_252" /\ caller.task = t /\ caller'.pc = "idle")
                   => (InQueue(t)' /\ tasks'[t].status = PENDING)
       /\ \A th \in DOMAIN wpc :
             Takes(th) => \A u \in Range(task_queue) :
                             tasks[u].priority >= tasks[wtask'[th]].priority]_vars

\* After a stop() that has returned, with the engine having run before: the
\* Low task and the Critical task are both queued and untried, and the old
\* thread has ended.
C36_Witness ==
    /\ NotStarted
    /\ caller.pc = "idle"
    /\ \E t \in TaskIds : attempts[t] > 0
    /\ \A th \in DOMAIN wpc : wpc[th] = "off"
    /\ \E t \in TaskIds : InQueue(t) /\ tasks[t].status = PENDING /\ attempts[t] = 0

\* C37: start() called while the engine runs, and stop() called while it is
\* stopped, return without creating a thread and without changing a task,
\* the queue, a list, a counter or a flag.
C37_RepeatedCallsDoNothing ==
    [][/\ (caller.pc = "start_195" /\ is_running /\ caller'.pc # "start_195")
          => (UNCHANGED EngineState /\ caller'.pc = "idle")
       /\ (caller.pc = "stop_206" /\ ~is_running /\ caller'.pc # "stop_206")
          => (UNCHANGED EngineState /\ caller'.pc = "idle")]_vars

\* start() has been entered while the engine runs, with a task in a thread's
\* hands and another one queued.
C37_Witness ==
    /\ caller.pc = "start_195"
    /\ is_running
    /\ \E th \in DOMAIN wpc : wpc[th] = "exec_136"
    /\ task_queue # <<>>

\* The positions of a thread between a put or a get and the assignment of
\* the size it refreshes the cache with.
Refreshing == {"add_253", "add_253_store", "get_265", "get_265_store",
               "retry_276", "retry_276_store", "check_306", "check_306_store"}

\* C38: whenever no thread is between a put or a get and its refresh of the
\* cache, stats['queue_size'] is the number of entries of the queue.
C38_CachedSizeIsActual ==
    (/\ caller.pc \notin Refreshing
     /\ \A th \in DOMAIN wpc : wpc[th] \notin Refreshing)
    => stats.queue_size = Len(task_queue)

====
